---- MODULE Spec2Model ----
(***************************************************************************)
(* The UI executor of src/src/graph/ui_executor: the retry orchestrator    *)
(* (nodes.py), its run context (state.py) and the history store            *)
(* (src/src/memory/memory_store.py).                                       *)
(*                                                                         *)
(* The run context is the Python dict threaded through the nodes; it is    *)
(* modelled as a TLA+ function whose DOMAIN is the set of keys present, so *)
(* that dict.get, dict.setdefault and the `in` test are what they are in   *)
(* the source. Texts are sequences of one-character strings, so that       *)
(* lower(), strip() and the substring test are computed, not assumed.      *)
(***************************************************************************)
EXTENDS Integers, Sequences, FiniteSets, TLC

VARIABLES
    pc,          \* the node of the workflow graph that runs next
    attempt_given, \* whether the caller's dict held an "attempt" already
    state,       \* the UIExecState dict
    cwd_exists,  \* environment: whether Path(cwd) existed at the last execute_tests
    db,          \* the SQLite store: [runs: Seq(row), results: Seq(row)]
    routed,      \* the last value decide_after_approval returned ("none" before)
    execCount,   \* how many times execute_tests ran (the attempts made)
    promptCount, \* how many times input() was called by approval_checkpoint
    saveCalls    \* how many times memory_store.save_run was called

vars == <<pc, attempt_given, state, cwd_exists, db, routed, execCount, promptCount, saveCalls>>

(***************************************************************************)
(* Bounds of the model.                                                    *)
(***************************************************************************)
\* the largest max_attempts a caller passes
MaxAttempts == 3
\* the largest number of failures of the environment in one run
MaxFaults == 1
\* the largest number of entries the reports of one run add up to
MaxResults == 3
\* the calls of save_run on one store
MaxRuns == 2
\* the days that pass over one store
MaxDays == 8

(***************************************************************************)
(* Texts.                                                                  *)
(***************************************************************************)
UpperLetters == <<"A","B","C","D","E","F","G","H","I","J","K","L","M",
                  "N","O","P","Q","R","S","T","U","V","W","X","Y","Z">>

LowerLetters == <<"a","b","c","d","e","f","g","h","i","j","k","l","m",
                  "n","o","p","q","r","s","t","u","v","w","x","y","z">>

\* str.lower() on one character
LowerChar(ch) ==
    IF \E i \in 1..Len(UpperLetters) : UpperLetters[i] = ch
    THEN LowerLetters[CHOOSE i \in 1..Len(UpperLetters) : UpperLetters[i] = ch]
    ELSE ch

\* str.lower()
Lower(t) == [i \in 1..Len(t) |-> LowerChar(t[i])]

IsSpace(ch) == ch \in {" ", "\t", "\n"}

RECURSIVE LStrip(_)
LStrip(t) == IF t # <<>> /\ IsSpace(Head(t)) THEN LStrip(Tail(t)) ELSE t

RECURSIVE RStrip(_)
RStrip(t) ==
    IF t # <<>> /\ IsSpace(t[Len(t)]) THEN RStrip(SubSeq(t, 1, Len(t) - 1)) ELSE t

\* str.strip()
Strip(t) == RStrip(LStrip(t))

\* the Python test `sig in t` on strings
Contains(t, sig) ==
    \E i \in 1..(Len(t) - Len(sig) + 1) : SubSeq(t, i, i + Len(sig) - 1) = sig

(***************************************************************************)
(* The texts the model's reports, classifier answers and rules are made of. *)
(***************************************************************************)
\* "not visible"
SigNotVisible == <<"n","o","t"," ","v","i","s","i","b","l","e">>

\* "timeout"
SigTimeout == <<"t","i","m","e","o","u","t">>

\* "timed out"
SigTimedOut == <<"t","i","m","e","d"," ","o","u","t">>

\* "network"
SigNetwork == <<"n","e","t","w","o","r","k">>

\* "navigation"
SigNavigation == <<"n","a","v","i","g","a","t","i","o","n">>

\* "to be visible"
SigToBeVisible == <<"t","o"," ","b","e"," ","v","i","s","i","b","l","e">>

\* "@flaky"
FlakyTag == <<"@","f","l","a","k","y">>

\* "t1 @Flaky": a test title carrying the tag, in another case
NameFlaky == <<"t","1"," ","@","F","l","a","k","y">>

\* "t2"
NameCheckout == <<"t","2">>

\* " Timeout": a failure message attribute, as written in the report
MsgTimeout == <<" ","T","i","m","e","o","u","t">>

\* "1 != 2"
MsgAssert == <<"1"," ","!","="," ","2">>

\* "Navigation "
DetailsNavigation == <<"N","a","v","i","g","a","t","i","o","n"," ">>

\* "step 3"
DetailsStep == <<"s","t","e","p"," ","3">>

\* "transient"
LabelTransient == <<"t","r","a","n","s","i","e","n","t">>

\* "real"
LabelReal == <<"r","e","a","l">>

\* " Transient ": a label the classifier wrote with a capital and blanks
LabelTransientRaw == <<" ","T","r","a","n","s","i","e","n","t"," ">>

\* "" (the empty text)
\* "t": a prefix of "t2"
NamePrefix == <<"t">>

\* "1 !=": a prefix of "1 != 2"
MsgPrefix == <<"1"," ","!","=">>

\* "maybe": a label outside the two the classifier is asked for
LabelUnsure == <<"m","a","y","b","e">>

Empty == <<>>

(***************************************************************************)
(* Python dicts: a function whose DOMAIN is the set of keys present.       *)
(***************************************************************************)
\* k in d
Has(d, k) == k \in DOMAIN d

\* d.get(k, default)
Get(d, k, default) == IF Has(d, k) THEN d[k] ELSE default

\* d[k] = v
Put(d, k, v) == [x \in DOMAIN d \cup {k} |-> IF x = k THEN v ELSE d[x]]

\* d.setdefault(k, v), as the dict it leaves
SetDefault(d, k, v) == IF Has(d, k) THEN d ELSE Put(d, k, v)

\* int(x or d) for an integer x
OrInt(x, d) == IF x = 0 THEN d ELSE x

\* int(s.get("attempt", 1) or 1)
AttemptOf(s) == OrInt(Get(s, "attempt", 1), 1)

\* int(s.get("max_attempts", 1) or 1)
MaxAttemptsOf(s) == OrInt(Get(s, "max_attempts", 1), 1)

\* int(s.get("summary", {}).get("failed", 0) or 0)
FailedOf(s) == OrInt(Get(Get(s, "summary", <<>>), "failed", 0), 0)

\* errors = s.setdefault("errors", []); errors.append(e)
AppendError(s, e) == Put(s, "errors", Append(Get(s, "errors", <<>>), e))

\* [c for c in results if c.get("attempt") == attempt_now and c.get("status") == "failed"]
FailedNow(s) ==
    SelectSeq(Get(s, "results", <<>>),
              LAMBDA c : Get(c, "attempt", 0) = AttemptOf(s)
                         /\ Get(c, "status", "") = "failed")

(***************************************************************************)
(* Node 1: prepare_config.                                                 *)
(***************************************************************************)
EmptySummary == [total |-> 0, passed |-> 0, failed |-> 0, skipped |-> 0]

\* prepare_config writing its policy over the caller's
prepare_config_OverwritesPolicy(s0) ==
    LET s1  == SetDefault(s0, "project", "ui")
        s2  == SetDefault(s1, "cwd", ".")
        s3  == IF ~Has(s2, "cmd") THEN Put(s2, "cmd", <<"npm", "run", "test:ui">>) ELSE s2
        s4  == SetDefault(s3, "junit_path", "results/junit-ui.xml")
        s5  == SetDefault(s4, "env", <<>>)
        s6  == SetDefault(s5, "attempt", 1)
        s7  == SetDefault(s6, "max_attempts", 2)
        s8  == SetDefault(s7, "approved", TRUE)
        s9  == SetDefault(s8, "results", <<>>)
        s10 == SetDefault(s9, "summary", EmptySummary)
        s11 == SetDefault(s10, "errors", <<>>)
        s12 == Put(s11, "policy", "flaky_only")
        s13 == SetDefault(s12, "retry_scope", "full")
    IN  SetDefault(s13, "llm_summary", "")

prepare_config(s0) ==
    LET s1  == SetDefault(s0, "project", "ui")
        s2  == SetDefault(s1, "cwd", ".")
        s3  == IF ~Has(s2, "cmd") THEN Put(s2, "cmd", <<"npm", "run", "test:ui">>) ELSE s2
        s4  == SetDefault(s3, "junit_path", "results/junit-ui.xml")
        s5  == SetDefault(s4, "env", <<>>)
        s6  == SetDefault(s5, "attempt", 1)
        s7  == SetDefault(s6, "max_attempts", 2)
        s8  == SetDefault(s7, "approved", TRUE)
        s9  == SetDefault(s8, "results", <<>>)
        s10 == SetDefault(s9, "summary", EmptySummary)
        s11 == SetDefault(s10, "errors", <<>>)
        s12 == SetDefault(s11, "policy", "flaky_only")
        s13 == SetDefault(s12, "retry_scope", "full")
    IN  SetDefault(s13, "llm_summary", "")

(***************************************************************************)
(* Node 2: execute_tests. `out` is what the environment does: the working  *)
(* directory is missing, subprocess.run raises, or the child returns rc.   *)
(***************************************************************************)
\* (no node reads run_rc, so one exit code of the child stands for all)
ExecOutcomes ==
    { [kind |-> "cwd_missing"], [kind |-> "exception"], [kind |-> "ran", rc |-> 1] }

\* execute_tests reporting a command that could not be started with the exit
\* code 1 and no error entry
execute_tests_NoErrorEntry(s0, out) ==
    IF out.kind = "cwd_missing"
    THEN LET s1 == AppendError(s0, "[execute_tests] cwd not found")
             s2 == Put(s1, "run_rc", 2)
             s3 == Put(s2, "stdout", "")
         IN  Put(s3, "stderr", "Directory not found")
    ELSE IF out.kind = "ran"
    THEN LET s1 == Put(s0, "run_rc", out.rc)
             s2 == Put(s1, "stdout", "stdout of the child")
         IN  Put(s2, "stderr", "stderr of the child")
    ELSE LET s1 == Put(s0, "run_rc", 1)
             s2 == Put(s1, "stdout", "")
         IN  Put(s2, "stderr", "[execute_tests] Exception")

execute_tests(s0, out) ==
    IF out.kind = "cwd_missing"
    THEN LET s1 == AppendError(s0, "[execute_tests] cwd not found")
             s2 == Put(s1, "run_rc", 2)
             s3 == Put(s2, "stdout", "")
         IN  Put(s3, "stderr", "Directory not found")
    ELSE IF out.kind = "ran"
    THEN LET s1 == Put(s0, "run_rc", out.rc)
             s2 == Put(s1, "stdout", "stdout of the child")
         IN  Put(s2, "stderr", "stderr of the child")
    ELSE LET s1 == Put(s0, "run_rc", 2)
             s2 == Put(s1, "stdout", "")
             s3 == Put(s2, "stderr", "[execute_tests] Exception")
         IN  AppendError(s3, "exception of subprocess.run")

(***************************************************************************)
(* Node 3: parse_results. A <testcase> element is                          *)
(*   [name, classname, failure, skipped]                                   *)
(* where failure is <<>> (no <failure> child) or <<f>> with                *)
(*   f = [message |-> the attribute, parts |-> the text fragments of the   *)
(*        element and of its children, in document order]                  *)
(* and skipped says whether a <skipped> child is there.                    *)
(***************************************************************************)
NoFailure == <<>>

Failure(message, parts) == <<[message |-> message, parts |-> parts]>>

\* "\n".join(p.strip() for p in parts if p and p.strip())
RECURSIVE JoinStripped(_)
JoinStripped(parts) ==
    IF parts = <<>> THEN <<>>
    ELSE LET rest == JoinStripped(Tail(parts))
             p    == Strip(Head(parts))
         IN  IF p = <<>> THEN rest
             ELSE IF rest = <<>> THEN p
             ELSE p \o <<"\n">> \o rest

\* a <skipped> child taking precedence over a <failure> child
StatusOfTestcase_SkippedFirst(tc) ==
    IF tc.skipped THEN "skipped"
    ELSE IF tc.failure # NoFailure THEN "failed"
    ELSE "passed"

\* the status of one <testcase>: lines 109-130
StatusOfTestcase(tc) ==
    IF tc.failure # NoFailure THEN "failed"
    ELSE IF tc.skipped THEN "skipped"
    ELSE "passed"

\* the dict appended for one <testcase>: lines 105-148
CaseOfTestcase(tc, attempt) ==
    [ name    |-> tc.name,
      suite   |-> tc.classname,
      status  |-> StatusOfTestcase(tc),
      message |-> IF tc.failure # NoFailure THEN Strip(tc.failure[1].message) ELSE Empty,
      details |-> IF tc.failure # NoFailure THEN JoinStripped(tc.failure[1].parts) ELSE Empty,
      attempt |-> attempt,
      project |-> "UI" ]

CountStatus(cases, st) == Len(SelectSeq(cases, LAMBDA c : c.status = st))

\* parse_results putting the cases of this attempt in the place of the
\* accumulated ones
parse_results_ReplacesResults(s0, file) ==
    IF file.kind = "missing"
    THEN AppendError(s0, "[parse_results] JUnit not found")
    ELSE IF file.kind = "unparsable"
    THEN AppendError(s0, "[parse_results] Exception")
    ELSE LET testcases == file.testcases
             cases == [i \in 1..Len(testcases) |->
                          CaseOfTestcase(testcases[i], AttemptOf(s0))]
             s1 == Put(s0, "results", cases)
         IN  Put(s1, "summary",
                 [ total   |-> Len(testcases),
                   passed  |-> CountStatus(cases, "passed"),
                   failed  |-> CountStatus(cases, "failed"),
                   skipped |-> CountStatus(cases, "skipped") ])

\* parse_results counting the accumulated entries of all attempts
parse_results_CumulativeCounts(s0, file) ==
    IF file.kind = "missing"
    THEN AppendError(s0, "[parse_results] JUnit not found")
    ELSE IF file.kind = "unparsable"
    THEN AppendError(s0, "[parse_results] Exception")
    ELSE LET testcases == file.testcases
             cases == [i \in 1..Len(testcases) |->
                          CaseOfTestcase(testcases[i], AttemptOf(s0))]
             all == Get(s0, "results", <<>>) \o cases
             s1 == Put(s0, "results", all)
         IN  Put(s1, "summary",
                 [ total   |-> Len(all),
                   passed  |-> CountStatus(all, "passed"),
                   failed  |-> CountStatus(all, "failed"),
                   skipped |-> CountStatus(all, "skipped") ])

\* `file` is what is at cwd/junit_path: nothing, a file ET.parse or the loop
\* raises on, or a report with the given <testcase> elements.
parse_results(s0, file) ==
    IF file.kind = "missing"
    THEN AppendError(s0, "[parse_results] JUnit not found")
    ELSE IF file.kind = "unparsable"
    THEN AppendError(s0, "[parse_results] Exception")
    ELSE LET testcases == file.testcases
             cases == [i \in 1..Len(testcases) |->
                          CaseOfTestcase(testcases[i], AttemptOf(s0))]
             s1 == Put(s0, "results", Get(s0, "results", <<>>) \o cases)
         IN  Put(s1, "summary",
                 [ total   |-> Len(testcases),
                   passed  |-> CountStatus(cases, "passed"),
                   failed  |-> CountStatus(cases, "failed"),
                   skipped |-> CountStatus(cases, "skipped") ])

(***************************************************************************)
(* Node 3.5: llm_triage. `resp` is what chat() and json.loads make of the  *)
(* classifier: chat raises; the text is no JSON; the JSON is no object; or *)
(* an object with a summary and a list of labels, each a dict              *)
(* [name, label, reason]. The label and the reason are JSON values: a      *)
(* string, Str(text), or a number, Num(n).                                 *)
(***************************************************************************)
Str(text) == [str |-> text]

Num(n) == [num |-> n]

\* (v or "").strip() raises: v is neither falsy nor a string
StripRaises(v) == Has(v, "num") /\ v.num # 0

\* (v or "").strip(), where it returns
StripOrEmpty(v) == IF Has(v, "str") THEN Strip(v.str) ELSE Empty

\* by_name = {lbl.get("name", ""): lbl for lbl in labels if isinstance(lbl, dict)}:
\* the entry a name maps to is the last one of the list carrying it
HasEntry(labels, name) ==
    \E i \in 1..Len(labels) : Get(labels[i], "name", Empty) = name

LastEntry(labels, name) ==
    LET idx == { i \in 1..Len(labels) : Get(labels[i], "name", Empty) = name }
    IN  labels[CHOOSE i \in idx : \A j \in idx : j <= i]

\* `if lbl:` for the case c
Labelled(c, labels) ==
    LET name == Get(c, "name", Empty)
    IN  HasEntry(labels, name) /\ DOMAIN LastEntry(labels, name) # {}

\* lines 250-255 for one case c of failed_now, where they raise nothing
LabelCase(c, labels) ==
    IF Labelled(c, labels)
    THEN LET lbl == LastEntry(labels, Get(c, "name", Empty))
             c1  == Put(c, "llm_label", StripOrEmpty(Get(lbl, "label", Str(Empty))))
         IN  Put(c1, "llm_reason", StripOrEmpty(Get(lbl, "reason", Str(Empty))))
    ELSE c

\* line 254 or line 255 raises for the case c
LabelRaises(c, labels) ==
    /\ Labelled(c, labels)
    /\ LET lbl == LastEntry(labels, Get(c, "name", Empty))
       IN  StripRaises(Get(lbl, "label", Str(Empty)))
           \/ StripRaises(Get(lbl, "reason", Str(Empty)))

\* the case c when line 254 or 255 raised on it: line 254 has written llm_label
\* if it is line 255 that raised
LabelCaseUntilRaise(c, labels) ==
    LET lbl == LastEntry(labels, Get(c, "name", Empty))
    IN  IF StripRaises(Get(lbl, "label", Str(Empty))) THEN c
        ELSE Put(c, "llm_label", StripOrEmpty(Get(lbl, "label", Str(Empty))))

\* the labels chat() and json.loads give, where lines 232-246 raise nothing
LabelsOf(resp) ==
    IF resp.kind = "not_json" THEN <<>> ELSE Get(resp.data, "labels", <<>>)

\* the first case of failed_now (by its place in results) the loop of lines
\* 250-255 raises on; 0 if it raises on none
FirstRaising(s0, labels) ==
    LET results == Get(s0, "results", <<>>)
        raising == { i \in 1..Len(results) :
                       /\ Get(results[i], "attempt", 0) = AttemptOf(s0)
                       /\ Get(results[i], "status", "") = "failed"
                       /\ LabelRaises(results[i], labels) }
    IN  IF raising = {} THEN 0 ELSE CHOOSE i \in raising : \A j \in raising : i <= j

\* llm_triage ends in the handler of lines 260-262
TriageRaises(s0, resp) ==
    /\ FailedNow(s0) # <<>>
    /\ \/ resp.kind \in {"chat_raises", "not_an_object"}
       \/ FirstRaising(s0, LabelsOf(resp)) # 0

\* llm_triage labelling the failed cases of every attempt
llm_triage_AllAttempts(s0, resp) ==
    IF FailedNow(s0) = <<>> THEN s0
    ELSE IF resp.kind \in {"chat_raises", "not_an_object"}
    THEN AppendError(s0, "[llm_triage] Exception")
    ELSE LET data == IF resp.kind = "not_json"
                     THEN [summary |-> "", labels |-> <<>>]
                     ELSE resp.data
             labels  == LabelsOf(resp)
             results == Get(s0, "results", <<>>)
             stop    == FirstRaising(s0, labels)
             labelled == [i \in 1..Len(results) |->
                            IF Get(results[i], "status", "") = "failed"
                            THEN IF stop = 0 \/ i < stop THEN LabelCase(results[i], labels)
                                 ELSE IF i = stop THEN LabelCaseUntilRaise(results[i], labels)
                                 ELSE results[i]
                            ELSE results[i]]
             s1 == Put(s0, "results", labelled)
         IN  IF stop = 0
             THEN Put(s1, "llm_summary", Get(data, "summary", ""))
             ELSE AppendError(s1, "[llm_triage] Exception")

\* The cases of failed_now are the dicts of the state's results, written in
\* place: what the loop wrote before it raised stays.
llm_triage(s0, resp) ==
    IF FailedNow(s0) = <<>> THEN s0
    ELSE IF resp.kind \in {"chat_raises", "not_an_object"}
    THEN AppendError(s0, "[llm_triage] Exception")
    ELSE LET data == IF resp.kind = "not_json"
                     THEN [summary |-> "", labels |-> <<>>]
                     ELSE resp.data
             labels  == LabelsOf(resp)
             results == Get(s0, "results", <<>>)
             stop    == FirstRaising(s0, labels)
             labelled == [i \in 1..Len(results) |->
                            IF Get(results[i], "attempt", 0) = AttemptOf(s0)
                               /\ Get(results[i], "status", "") = "failed"
                            THEN IF stop = 0 \/ i < stop THEN LabelCase(results[i], labels)
                                 ELSE IF i = stop THEN LabelCaseUntilRaise(results[i], labels)
                                 ELSE results[i]
                            ELSE results[i]]
             s1 == Put(s0, "results", labelled)
         IN  IF stop = 0
             THEN Put(s1, "llm_summary", Get(data, "summary", ""))
             ELSE AppendError(s1, "[llm_triage] Exception")

(***************************************************************************)
(* The rule-based classifier and the router.                               *)
(***************************************************************************)
transient_signals ==
    {SigNotVisible, SigTimeout, SigTimedOut, SigNetwork, SigNavigation, SigToBeVisible}

\* a rule that does not read the detail text
_is_retry_eligible_ui_IgnoresDetails(c) ==
    LET title   == Lower(Get(c, "name", Empty))
        msg     == Lower(Get(c, "message", Empty))
    IN  IF Contains(title, FlakyTag) THEN TRUE
        ELSE \E sig \in transient_signals : Contains(msg, sig)

_is_retry_eligible_ui(c) ==
    LET title   == Lower(Get(c, "name", Empty))
        msg     == Lower(Get(c, "message", Empty))
        details == Lower(Get(c, "details", Empty))
    IN  IF Contains(title, FlakyTag) THEN TRUE
        ELSE (\E sig \in transient_signals : Contains(msg, sig))
             \/ (\E sig \in transient_signals : Contains(details, sig))

\* the labels deciding "retry" only when every failed case of the attempt is
\* labelled transient
decide_by_labels_or_rules_AllTransient(s) ==
    LET failed_cases == FailedNow(s)
        has_llm == \E i \in 1..Len(failed_cases) : Has(failed_cases[i], "llm_label")
    IN  IF has_llm
        THEN IF \A i \in 1..Len(failed_cases) :
                   Lower(Get(failed_cases[i], "llm_label", Empty)) = LabelTransient
             THEN "retry"
             ELSE "end"
        ELSE IF \E i \in 1..Len(failed_cases) : _is_retry_eligible_ui(failed_cases[i])
             THEN "retry"
             ELSE "end"

\* lines 303-313: the labels of the classifier if any failed case of the
\* attempt has one, the rules otherwise
decide_by_labels_or_rules(s) ==
    LET failed_cases == FailedNow(s)
        has_llm == \E i \in 1..Len(failed_cases) : Has(failed_cases[i], "llm_label")
    IN  IF has_llm
        THEN IF \E i \in 1..Len(failed_cases) :
                   Lower(Get(failed_cases[i], "llm_label", Empty)) = LabelTransient
             THEN "retry"
             ELSE "end"
        ELSE IF \E i \in 1..Len(failed_cases) : _is_retry_eligible_ui(failed_cases[i])
             THEN "retry"
             ELSE "end"

\* state.get("approved") is False
ApprovedIsFalse(s) == Has(s, "approved") /\ s["approved"] = FALSE

\* the router with the test of policy "none" left out
decide_after_approval_NoNoneTest(s) ==
    IF FailedOf(s) = 0 THEN "end"
    ELSE IF ApprovedIsFalse(s) THEN "end"
    ELSE IF AttemptOf(s) >= MaxAttemptsOf(s) THEN "end"
    ELSE IF Get(s, "policy", "") = "always" THEN "retry"
    ELSE decide_by_labels_or_rules(s)

\* the router with the test of policy "always" left out
decide_after_approval_NoAlwaysTest(s) ==
    IF FailedOf(s) = 0 THEN "end"
    ELSE IF Get(s, "policy", "") = "none" THEN "end"
    ELSE IF ApprovedIsFalse(s) THEN "end"
    ELSE IF AttemptOf(s) >= MaxAttemptsOf(s) THEN "end"
    ELSE decide_by_labels_or_rules(s)

\* the router testing policy "always" before the approval
decide_after_approval_AlwaysFirst(s) ==
    IF FailedOf(s) = 0 THEN "end"
    ELSE IF Get(s, "policy", "") = "none" THEN "end"
    ELSE IF AttemptOf(s) >= MaxAttemptsOf(s) THEN "end"
    ELSE IF Get(s, "policy", "") = "always" THEN "retry"
    ELSE IF ApprovedIsFalse(s) THEN "end"
    ELSE decide_by_labels_or_rules(s)

\* a router that does not look at the failed count
decide_after_approval_NoFailedTest(s) ==
    IF Get(s, "policy", "") = "none" THEN "end"
    ELSE IF ApprovedIsFalse(s) THEN "end"
    ELSE IF AttemptOf(s) >= MaxAttemptsOf(s) THEN "end"
    ELSE IF Get(s, "policy", "") = "always" THEN "retry"
    ELSE decide_by_labels_or_rules(s)

decide_after_approval(s) ==
    IF FailedOf(s) = 0 THEN "end"
    ELSE IF Get(s, "policy", "") = "none" THEN "end"
    ELSE IF ApprovedIsFalse(s) THEN "end"
    ELSE IF AttemptOf(s) >= MaxAttemptsOf(s) THEN "end"
    ELSE IF Get(s, "policy", "") = "always" THEN "retry"
    ELSE decide_by_labels_or_rules(s)

(***************************************************************************)
(* Node 5: retry_once.                                                     *)
(***************************************************************************)
\* retry_once adding two
retry_once_SkipsOne(s) == Put(s, "attempt", AttemptOf(s) + 2)

\* retry_once leaving the attempt number as it is
retry_once_NoIncrement(s) == Put(s, "attempt", AttemptOf(s))

retry_once(s) == Put(s, "attempt", AttemptOf(s) + 1)

(***************************************************************************)
(* Node 6: approval_checkpoint. `ans` is what input() does: it raises      *)
(* EOFError, or it returns the line typed.                                 *)
(***************************************************************************)
\* "approve"
AnsApprove == <<"a","p","p","r","o","v","e">>

\* "deny"
AnsDeny == <<"d","e","n","y">>

\* " Deny ": the line as a person types it
LineDeny == <<" ","D","e","n","y"," ">>

\* "yes"
LineYes == <<"y","e","s">>

Answers ==
    { [kind |-> "eof"] }
    \cup { [kind |-> "line", text |-> t] : t \in {AnsApprove, AnsDeny, LineDeny, LineYes, Empty} }

\* a gate that asks under the policy "none" too
Prompts_IgnoresPolicy(s) ==
    /\ FailedOf(s) # 0
    /\ AttemptOf(s) < MaxAttemptsOf(s)

\* lines 333-339: whether approval_checkpoint reaches input()
Prompts(s) ==
    /\ FailedOf(s) # 0
    /\ Get(s, "policy", "") # "none"
    /\ AttemptOf(s) < MaxAttemptsOf(s)

\* a gate that takes the end of input for a refusal
approval_checkpoint_EofDenies(s, ans) ==
    IF ~Prompts(s) THEN s
    ELSE IF ans.kind = "eof" THEN Put(s, "approved", FALSE)
    ELSE LET a == Lower(Strip(ans.text))
         IN  IF a \in {AnsApprove, AnsDeny} THEN Put(s, "approved", a = AnsApprove)
             ELSE s

approval_checkpoint(s, ans) ==
    IF ~Prompts(s) THEN s
    ELSE IF ans.kind = "eof" THEN s
    ELSE LET a == Lower(Strip(ans.text))
         IN  IF a \in {AnsApprove, AnsDeny} THEN Put(s, "approved", a = AnsApprove)
             ELSE s

(***************************************************************************)
(* The history store (memory_store.py): the tables runs and results, and   *)
(* the day CURRENT_TIMESTAMP and datetime('now') fall on.                  *)
(***************************************************************************)
\* save_run writing the result rows under the id of the run before
save_run_PreviousRunId(d, project, summary, results, llm_summary) ==
    LET run_id == Len(d.runs) + 1
        run == [ id          |-> run_id,
                 project     |-> project,
                 ts          |-> d.now,
                 total       |-> Get(summary, "total", 0),
                 passed      |-> Get(summary, "passed", 0),
                 failed      |-> Get(summary, "failed", 0),
                 skipped     |-> Get(summary, "skipped", 0),
                 llm_summary |-> llm_summary ]
        rows == [i \in 1..Len(results) |->
                    [ id      |-> Len(d.results) + i,
                      run_id  |-> run_id - 1,
                      name    |-> Get(results[i], "name", Empty),
                      suite   |-> Get(results[i], "suite", Empty),
                      status  |-> Get(results[i], "status", ""),
                      message |-> Get(results[i], "message", Empty),
                      details |-> Get(results[i], "details", Empty),
                      attempt |-> Get(results[i], "attempt", 1) ]]
    IN  [d EXCEPT !.runs = Append(@, run), !.results = @ \o rows]

save_run(d, project, summary, results, llm_summary) ==
    LET run_id == Len(d.runs) + 1
        run == [ id          |-> run_id,
                 project     |-> project,
                 ts          |-> d.now,
                 total       |-> Get(summary, "total", 0),
                 passed      |-> Get(summary, "passed", 0),
                 failed      |-> Get(summary, "failed", 0),
                 skipped     |-> Get(summary, "skipped", 0),
                 llm_summary |-> llm_summary ]
        rows == [i \in 1..Len(results) |->
                    [ id      |-> Len(d.results) + i,
                      run_id  |-> run_id,
                      name    |-> Get(results[i], "name", Empty),
                      suite   |-> Get(results[i], "suite", Empty),
                      status  |-> Get(results[i], "status", ""),
                      message |-> Get(results[i], "message", Empty),
                      details |-> Get(results[i], "details", Empty),
                      attempt |-> Get(results[i], "attempt", 1) ]]
    IN  [d EXCEPT !.runs = Append(@, run), !.results = @ \o rows]

\* p is a prefix of t
IsPrefix(p, t) == Len(p) <= Len(t) /\ SubSeq(t, 1, Len(p)) = p

\* find_recurrences matching the name as LIKE 'name%' would
find_recurrences_PrefixMatch(d, name, message, days) ==
    Cardinality({ i \in 1..Len(d.results) :
        /\ IsPrefix(name, d.results[i].name)
        /\ d.results[i].status = "failed"
        /\ d.results[i].message = message
        /\ \E j \in 1..Len(d.runs) :
              /\ d.runs[j].id = d.results[i].run_id
              /\ d.runs[j].ts >= d.now - days })

\* the branch `days is not None`
find_recurrences(d, name, message, days) ==
    Cardinality({ i \in 1..Len(d.results) :
        /\ d.results[i].name = name
        /\ d.results[i].status = "failed"
        /\ d.results[i].message = message
        /\ \E j \in 1..Len(d.runs) :
              /\ d.runs[j].id = d.results[i].run_id
              /\ d.runs[j].ts >= d.now - days })

(***************************************************************************)
(* Node 7: persist_to_memory. `outcome` is what the store does: save_run   *)
(* raises, the lookups raise, or both work.                                *)
(***************************************************************************)
PersistOutcomes == {"save_raises", "lookup_raises", "ok"}

\* How many times persist_to_memory calls memory_store.save_run: once, in the
\* try of lines 367-373. (The variant calls it again in the handler.)
save_run_calls_AgainOnError(outcome) == IF outcome = "save_raises" THEN 2 ELSE 1

save_run_calls(outcome) == 1

\* the store after persist_to_memory
\* a store given the entries of the last attempt only
persist_store_LastAttemptOnly(s, d, outcome) ==
    IF outcome = "save_raises" THEN d
    ELSE save_run(d, "UI", Get(s, "summary", <<>>),
                  SelectSeq(Get(s, "results", <<>>), LAMBDA c : c.attempt = AttemptOf(s)),
                  Get(s, "llm_summary", ""))

persist_store(s, d, outcome) ==
    IF outcome = "save_raises" THEN d
    ELSE save_run(d, "UI", Get(s, "summary", <<>>), Get(s, "results", <<>>),
                  Get(s, "llm_summary", ""))

\* persist_to_memory setting empty recurrence notes when the save failed
persist_to_memory_NotesOnSaveError(s, d, outcome) ==
    IF outcome = "save_raises"
    THEN Put(AppendError(s, "[persist_to_memory] Save error"), "memory_notes", <<>>)
    ELSE LET results == Get(s, "results", <<>>)
             saved   == persist_store(s, d, outcome)
             failed  == SelectSeq(results, LAMBDA c : Get(c, "status", "") = "failed")
             note(c) ==
                 LET name  == Get(c, "name", Empty)
                     count == find_recurrences(saved, name, Get(c, "message", Empty), 7)
                 IN  IF outcome = "lookup_raises"
                     THEN [name |-> name, note |-> "memory lookup error", count |-> 0]
                     ELSE IF count > 1
                     THEN [name |-> name, note |-> "seen", count |-> count]
                     ELSE [name |-> name, note |-> "NEW failure", count |-> count]
         IN  Put(s, "memory_notes", [i \in 1..Len(failed) |-> note(failed[i])])

\* persist_to_memory noting a recurrence from the first row on
persist_to_memory_SeenFromOne(s, d, outcome) ==
    IF outcome = "save_raises"
    THEN AppendError(s, "[persist_to_memory] Save error")
    ELSE LET results == Get(s, "results", <<>>)
             saved   == persist_store(s, d, outcome)
             failed  == SelectSeq(results, LAMBDA c : Get(c, "status", "") = "failed")
             note(c) ==
                 LET name  == Get(c, "name", Empty)
                     count == find_recurrences(saved, name, Get(c, "message", Empty), 7)
                 IN  IF outcome = "lookup_raises"
                     THEN [name |-> name, note |-> "memory lookup error", count |-> 0]
                     ELSE IF count > 0
                     THEN [name |-> name, note |-> "seen", count |-> count]
                     ELSE [name |-> name, note |-> "NEW failure", count |-> count]
         IN  Put(s, "memory_notes", [i \in 1..Len(failed) |-> note(failed[i])])

persist_to_memory(s, d, outcome) ==
    IF outcome = "save_raises"
    THEN AppendError(s, "[persist_to_memory] Save error")
    ELSE LET results == Get(s, "results", <<>>)
             saved   == persist_store(s, d, outcome)
             failed  == SelectSeq(results, LAMBDA c : Get(c, "status", "") = "failed")
             note(c) ==
                 LET name  == Get(c, "name", Empty)
                     count == find_recurrences(saved, name, Get(c, "message", Empty), 7)
                 IN  IF outcome = "lookup_raises"
                     THEN [name |-> name, note |-> "memory lookup error", count |-> 0]
                     ELSE IF count > 1
                     THEN [name |-> name, note |-> "seen", count |-> count]
                     ELSE [name |-> name, note |-> "NEW failure", count |-> count]
         IN  Put(s, "memory_notes", [i \in 1..Len(failed) |-> note(failed[i])])

(***************************************************************************)
(* The driver (run_ui_executor.py): the exit code main raises SystemExit   *)
(* with, from the state the graph returned.                                *)
(***************************************************************************)
\* failed = int(summary.get("failed", 0) or 0); 0 if failed == 0 else 1
exit_code(final) == IF FailedOf(final) = 0 THEN 0 ELSE 1

(***************************************************************************)
(* The inputs of a run.                                                    *)
(***************************************************************************)
\* <testcase> elements: a failure whose title carries the tag, a failure whose
\* message names a timeout, a failure no rule matches (with a <skipped> child
\* too), a failure whose detail text alone names a navigation, a pass, a skip
tcFlakyFail ==
    [name |-> NameFlaky, classname |-> Empty, failure |-> Failure(MsgAssert, <<>>),
     skipped |-> FALSE]

tcTimeoutFail ==
    [name |-> NameCheckout, classname |-> Empty, failure |-> Failure(MsgTimeout, <<DetailsStep>>),
     skipped |-> FALSE]

tcRealFail ==
    [name |-> NameCheckout, classname |-> Empty, failure |-> Failure(MsgAssert, <<DetailsStep>>),
     skipped |-> TRUE]

tcDetailsFail ==
    [name |-> NameCheckout, classname |-> Empty,
     failure |-> Failure(Empty, <<DetailsNavigation, <<" ">>, DetailsStep>>), skipped |-> FALSE]

tcPass ==
    [name |-> NameCheckout, classname |-> Empty, failure |-> NoFailure, skipped |-> FALSE]

tcSkip ==
    [name |-> NameFlaky, classname |-> Empty, failure |-> NoFailure, skipped |-> TRUE]

\* the reports the test command writes
Reports ==
    { <<>>,
      <<tcPass, tcSkip>>,
      <<tcFlakyFail, tcRealFail>>,
      <<tcTimeoutFail, tcSkip, tcPass>>,
      <<tcRealFail>>,
      <<tcDetailsFail, tcPass>> }

\* what parse_results can find at cwd/junit_path
Files ==
    { [kind |-> "missing"], [kind |-> "unparsable"] }
    \cup { [kind |-> "xml", testcases |-> r] : r \in Reports }

\* the label lists of the classifier: per name no entry or one entry; a list
\* with a label that is neither of the two asked for; and two lists with an
\* entry of the wrong shape, a number where a string is due
LabelLists ==
    LET entries(n, ls) ==
            { <<>> } \cup { <<[name |-> n, label |-> Str(l), reason |-> Str(Empty)]>> : l \in ls }
    IN  { a \o b : a \in entries(NameFlaky, {LabelTransient, LabelTransientRaw, LabelReal}),
                   b \in entries(NameCheckout, {LabelReal}) }
        \cup { <<[name |-> NameFlaky, label |-> Str(LabelUnsure), reason |-> Str(Empty)]>>,
                <<[name |-> NameFlaky, label |-> Str(LabelReal), reason |-> Num(5)]>>,
                <<[name |-> NameFlaky, label |-> Str(LabelReal), reason |-> Str(Empty)],
                  [name |-> NameCheckout, label |-> Num(5), reason |-> Str(Empty)]>> }

LlmResponses ==
    { [kind |-> "chat_raises"], [kind |-> "not_json"], [kind |-> "not_an_object"] }
    \cup { [kind |-> "json", data |-> [summary |-> "summary of the failures", labels |-> l]] :
             l \in LabelLists }

\* the dicts a caller hands to the graph: the driver sets max_attempts and policy,
\* another caller may leave them out or set attempt and approved too, or hand
\* over a dict with no field or one field
CallerStates ==
    LET base == [project |-> "ui", cwd |-> "./playwright-demo", junit_path |-> "results/junit-ui.xml",
                 retry_scope |-> "full", env |-> <<>>]
        opt(k, vals) == { <<>> } \cup { (k :> v) : v \in vals }
    IN  { base @@ a @@ b @@ c @@ d :
            a \in opt("max_attempts", {0, 1, MaxAttempts}),
            b \in opt("policy", {"always", "flaky_only", "none"}),
            c \in opt("attempt", {2}),
            d \in opt("approved", {TRUE, FALSE}) }
        \cup { <<>>, [policy |-> "always"] }

\* the environment fails (a directory or file is missing, a call raises) only
\* while the run has recorded fewer than MaxFaults errors
MayFail(s) == Len(Get(s, "errors", <<>>)) < MaxFaults

(***************************************************************************)
(* The workflow graph (build_ui_app): the node after each node, and the    *)
(* node the router's answer leads to.                                      *)
(***************************************************************************)
\* a graph that goes back to the test command after persisting
NextNode_LoopsAfterPersist(node) ==
    CASE node = "prepare_config"      -> "execute_tests"
      [] node = "execute_tests"       -> "parse_results"
      [] node = "parse_results"       -> "llm_triage"
      [] node = "llm_triage"          -> "approval_checkpoint"
      [] node = "approval_checkpoint" -> "decide_after_approval"
      [] node = "retry_once"          -> "execute_tests"
      [] node = "persist_to_memory"   -> "execute_tests"

NextNode(node) ==
    CASE node = "prepare_config"      -> "execute_tests"
      [] node = "execute_tests"       -> "parse_results"
      [] node = "parse_results"       -> "llm_triage"
      [] node = "llm_triage"          -> "approval_checkpoint"
      [] node = "approval_checkpoint" -> "decide_after_approval"
      [] node = "retry_once"          -> "execute_tests"
      [] node = "persist_to_memory"   -> "END"

RouteTarget(decision) ==
    IF decision = "retry" THEN "retry_once" ELSE "persist_to_memory"

(***************************************************************************)
(* The run.                                                                *)
(***************************************************************************)
\* the day of the run, and a store with no history
Today == 10

EmptyStore == [runs |-> <<>>, results |-> <<>>, now |-> Today]

Init ==
    /\ pc = "prepare_config"
    /\ state \in CallerStates
    /\ attempt_given = Has(state, "attempt")
    /\ cwd_exists = TRUE
    /\ db = EmptyStore
    /\ routed = "none"
    /\ execCount = 0
    /\ promptCount = 0
    /\ saveCalls = 0

PrepareConfig ==
    /\ pc = "prepare_config"
    /\ state' = prepare_config(state)
    /\ pc' = NextNode(pc)
    /\ UNCHANGED <<attempt_given, cwd_exists, db, routed, execCount, promptCount, saveCalls>>

ExecuteTests ==
    /\ pc = "execute_tests"
    /\ \E out \in ExecOutcomes :
          /\ out.kind = "ran" \/ MayFail(state)
          /\ state' = execute_tests(state, out)
          /\ cwd_exists' = (out.kind # "cwd_missing")
    /\ execCount' = execCount + 1
    /\ pc' = NextNode(pc)
    /\ UNCHANGED <<attempt_given, db, routed, promptCount, saveCalls>>

\* a file under a directory that does not exist is missing, and a command that
\* did not run (run_rc = 2) may have written none
ParseResults ==
    /\ pc = "parse_results"
    /\ \E file \in Files :
          /\ cwd_exists \/ file.kind = "missing"
          /\ \/ file.kind = "xml"
             \/ MayFail(state)
             \/ file.kind = "missing" /\ state["run_rc"] = 2
          /\ file.kind = "xml" =>
                Len(Get(state, "results", <<>>)) + Len(file.testcases) <= MaxResults
          /\ state' = parse_results(state, file)
    /\ pc' = NextNode(pc)
    /\ UNCHANGED <<attempt_given, cwd_exists, db, routed, execCount, promptCount, saveCalls>>

LlmTriage ==
    /\ pc = "llm_triage"
    /\ \E resp \in LlmResponses :
          /\ TriageRaises(state, resp) => MayFail(state)
          /\ state' = llm_triage(state, resp)
    /\ pc' = NextNode(pc)
    /\ UNCHANGED <<attempt_given, cwd_exists, db, routed, execCount, promptCount, saveCalls>>

ApprovalCheckpoint ==
    /\ pc = "approval_checkpoint"
    /\ \E ans \in Answers : state' = approval_checkpoint(state, ans)
    /\ promptCount' = IF Prompts(state) THEN promptCount + 1 ELSE promptCount
    /\ pc' = NextNode(pc)
    /\ UNCHANGED <<attempt_given, cwd_exists, db, routed, execCount, saveCalls>>

Route ==
    /\ pc = "decide_after_approval"
    /\ routed' = decide_after_approval(state)
    /\ pc' = RouteTarget(routed')
    /\ UNCHANGED <<attempt_given, state, cwd_exists, db, execCount, promptCount, saveCalls>>

RetryOnce ==
    /\ pc = "retry_once"
    /\ state' = retry_once(state)
    /\ pc' = NextNode(pc)
    /\ UNCHANGED <<attempt_given, cwd_exists, db, routed, execCount, promptCount, saveCalls>>

PersistToMemory ==
    /\ pc = "persist_to_memory"
    /\ \E outcome \in PersistOutcomes :
          /\ outcome = "ok" \/ MayFail(state)
          /\ state' = persist_to_memory(state, db, outcome)
          /\ db' = persist_store(state, db, outcome)
          /\ saveCalls' = saveCalls + save_run_calls(outcome)
    /\ pc' = NextNode(pc)
    /\ UNCHANGED <<attempt_given, cwd_exists, routed, execCount, promptCount>>

Next ==
    \/ PrepareConfig
    \/ ExecuteTests
    \/ ParseResults
    \/ LlmTriage
    \/ ApprovalCheckpoint
    \/ Route
    \/ RetryOnce
    \/ PersistToMemory

Spec == Init /\ [][Next]_vars

\* The runs of the command-line driver (run_ui_executor.py), which sets
\* max_attempts and policy and neither attempt nor approved. Every node returns
\* (the child process, the classifier call and the prompt included), so the
\* graph always takes its next step.
DriverStates ==
    { s \in CallerStates : Has(s, "max_attempts") /\ Has(s, "policy")
                           /\ ~Has(s, "attempt") /\ ~Has(s, "approved") }

InitDriver ==
    /\ pc = "prepare_config"
    /\ state \in DriverStates
    /\ attempt_given = FALSE
    /\ cwd_exists = TRUE
    /\ db = EmptyStore
    /\ routed = "none"
    /\ execCount = 0
    /\ promptCount = 0
    /\ saveCalls = 0

LiveSpec == InitDriver /\ [][Next]_vars /\ WF_vars(Next)

(***************************************************************************)
(* The history store on its own: callers of memory_store save runs and ask *)
(* for recurrences while days pass. `state` is the last call made, with    *)
(* its arguments and what it returned; saveCalls counts the calls of       *)
(* save_run.                                                               *)
(***************************************************************************)
\* the cases handed to save_run
StoredCase(name, status, message) ==
    [name |-> name, suite |-> Empty, status |-> status, message |-> message,
     details |-> Empty, attempt |-> 1]

StoredResults ==
    { <<>>,
      <<StoredCase(NameCheckout, "failed", MsgAssert)>>,
      <<StoredCase(NameCheckout, "failed", MsgAssert), StoredCase(NameCheckout, "passed", MsgAssert)>>,
      <<StoredCase(NamePrefix, "failed", MsgAssert), StoredCase(NameCheckout, "failed", MsgPrefix)>> }

\* the arguments of find_recurrences
QueryNames == {NameCheckout, NamePrefix}

QueryMessages == {MsgAssert, MsgPrefix}

QueryDays == {1, 7}

InitStore ==
    /\ pc = "store"
    /\ state = [op |-> "none"]
    /\ attempt_given = FALSE
    /\ cwd_exists = TRUE
    /\ db = EmptyStore
    /\ routed = "none"
    /\ execCount = 0
    /\ promptCount = 0
    /\ saveCalls = 0

SaveRun ==
    /\ pc = "store"
    /\ saveCalls < MaxRuns
    /\ \E results \in StoredResults :
          /\ db' = save_run(db, "UI", [total |-> Len(results)], results, "")
          /\ state' = [op |-> "save_run", results |-> results]
    /\ saveCalls' = saveCalls + 1
    /\ UNCHANGED <<pc, attempt_given, cwd_exists, routed, execCount, promptCount>>

FindRecurrences ==
    /\ pc = "store"
    /\ \E name \in QueryNames, message \in QueryMessages, days \in QueryDays :
          state' = [op |-> "find_recurrences", name |-> name, message |-> message,
                    days |-> days, count |-> find_recurrences(db, name, message, days)]
    /\ UNCHANGED <<pc, attempt_given, cwd_exists, db, routed, execCount, promptCount, saveCalls>>

\* the days on which the store is called: today, the day after it, and the days
\* from a week later on
CallDays == { Today + k : k \in {0, 1} \cup 7..MaxDays }

\* time passes until a later day of call: CURRENT_TIMESTAMP and datetime('now')
\* move on
DayPasses ==
    /\ pc = "store"
    /\ \E day \in CallDays :
          /\ day > db.now
          /\ db' = [db EXCEPT !.now = day]
    /\ UNCHANGED <<pc, attempt_given, state, cwd_exists, routed, execCount, promptCount, saveCalls>>

\* the accumulated results of runs that end: a case that failed once; the same
\* case failing in both attempts; a case with another message next to a pass
EndedResults ==
    { <<StoredCase(NameCheckout, "failed", MsgAssert)>>,
      <<StoredCase(NameCheckout, "failed", MsgAssert),
        [StoredCase(NameCheckout, "failed", MsgAssert) EXCEPT !.attempt = 2]>>,
      <<StoredCase(NameCheckout, "failed", MsgPrefix), StoredCase(NameFlaky, "passed", Empty)>> }

\* the state such a run hands to persist_to_memory: the summary is the one of
\* its last attempt
EndedRun(results) ==
    LET last == SelectSeq(results, LAMBDA c : c.attempt = results[Len(results)].attempt)
    IN  [ results     |-> results,
          summary     |-> [ total   |-> Len(last),
                            passed  |-> CountStatus(last, "passed"),
                            failed  |-> CountStatus(last, "failed"),
                            skipped |-> CountStatus(last, "skipped") ],
          llm_summary |-> "",
          errors      |-> <<>> ]

\* a run ends and persist_to_memory saves it and looks its failures up
PersistRun ==
    /\ pc = "store"
    /\ saveCalls < MaxRuns
    /\ \E results \in EndedResults :
          /\ db' = persist_store(EndedRun(results), db, "ok")
          /\ state' = [op |-> "persist_to_memory", results |-> results,
                       notes |-> persist_to_memory(EndedRun(results), db, "ok")["memory_notes"]]
    /\ saveCalls' = saveCalls + save_run_calls("ok")
    /\ UNCHANGED <<pc, attempt_given, cwd_exists, routed, execCount, promptCount>>

StoreNext ==
    \/ SaveRun
    \/ PersistRun
    \/ FindRecurrences
    \/ DayPasses

StoreSpec == InitStore /\ [][StoreNext]_vars

(***************************************************************************)
(* Properties.                                                             *)
(***************************************************************************)
Started == pc # "prepare_config"

\* C1: save_run is called exactly once per run, and only after the retry loop
\* has exited (the router returned "end"): no call while the loop runs, one
\* call once the run is over.
C1_SaveRunOnceAfterLoop ==
    /\ saveCalls = (IF pc = "END" THEN 1 ELSE 0)
    /\ saveCalls > 0 => routed = "end"

\* a run of three attempts that has ended
C1_Witness == pc = "END" /\ saveCalls = 1 /\ execCount = 3

\* the range of attempt and the count of executions, in a run whose caller gave
\* no attempt and a max_attempts >= 1
C2_Bounds ==
    (Started /\ ~attempt_given /\ state["max_attempts"] >= 1) =>
        /\ 1 <= state["attempt"]
        /\ state["attempt"] <= state["max_attempts"]
        /\ execCount = (IF pc = "execute_tests" THEN state["attempt"] - 1 ELSE state["attempt"])
        /\ execCount <= state["max_attempts"]

\* a step that changes attempt is the one of retry_once, and adds one
C2_Step ==
    (Started /\ state["attempt"]' # state["attempt"]) =>
        (pc = "retry_once" /\ state["attempt"]' = state["attempt"] + 1)

\* C2: in a run whose caller gave no attempt and a max_attempts >= 1, attempt
\* is 1 at the first execution and 1 <= attempt <= max_attempts in every state,
\* the test command has been executed attempt times (attempt - 1 times when the
\* next execution is about to start), so at most max_attempts times; and attempt
\* changes only in retry_once, by exactly one.
C2_AttemptRange == [](C2_Bounds) /\ [][C2_Step]_vars

\* the third execution of a run with max_attempts = 3 has been made
C2_Witness ==
    /\ pc = "parse_results" /\ ~attempt_given
    /\ state["attempt"] = 3 /\ state["max_attempts"] = 3 /\ execCount = 3

\* where the graph is once the router has returned "end"
C3_AfterEnd == routed = "end" => pc \in {"persist_to_memory", "END"}

\* the steps taken once the router has returned "end"
C3_Step ==
    routed = "end" =>
        /\ pc = "persist_to_memory" /\ pc' = "END"
        /\ routed' = "end"
        /\ execCount' = execCount
        /\ promptCount' = promptCount
        /\ state["results"]' = state["results"]
        /\ state["summary"]' = state["summary"]
        /\ state["attempt"]' = state["attempt"]

\* C3: once the router has returned "end", the graph is at persist_to_memory or
\* at its end, the only step left is the one of persist_to_memory, and no test
\* command is executed, nothing is parsed, labelled or prompted for any more.
C3_DoneIsFinal == [](C3_AfterEnd) /\ [][C3_Step]_vars

\* the router has ended a run of two attempts, which has been persisted
C3_Witness == routed = "end" /\ pc = "END" /\ execCount = 2 /\ promptCount = 1

\* the attempts the router still allows
AttemptsLeft(s) ==
    IF MaxAttemptsOf(s) > AttemptOf(s) THEN MaxAttemptsOf(s) - AttemptOf(s) ELSE 0

\* the attempts left and the place in the loop, as one natural number
Rank ==
    CASE pc = "prepare_config"        -> 8 * (MaxAttempts + 1)
      [] pc = "execute_tests"         -> 8 * AttemptsLeft(state) + 7
      [] pc = "parse_results"         -> 8 * AttemptsLeft(state) + 6
      [] pc = "llm_triage"            -> 8 * AttemptsLeft(state) + 5
      [] pc = "approval_checkpoint"   -> 8 * AttemptsLeft(state) + 4
      [] pc = "decide_after_approval" -> 8 * AttemptsLeft(state) + 3
      [] pc = "retry_once"            -> 8 * AttemptsLeft(state) + 2
      [] pc = "persist_to_memory"     -> 1
      [] pc = "END"                   -> 0

\* C4: every run reaches the end of the graph, for every policy, max_attempts,
\* sequence of test outcomes and of answers: a state that is not the end has a
\* next step, every step decreases Rank, and the end is eventually reached.
C4_Terminates ==
    /\ [](pc = "END" \/ ENABLED Next)
    /\ [][Rank' < Rank]_vars
    /\ <>(pc = "END")

\* a run that used all of three attempts under policy "always" and ended
C4_Witness ==
    /\ pc = "END" /\ execCount = 3 /\ state["policy"] = "always"
    /\ state["summary"].failed > 0

\* C5: under policy "none" the router answers "end" in every state, and the
\* run executes the test command exactly once.
C5_PolicyNoneEnds ==
    (Started /\ state["policy"] = "none") =>
        /\ decide_after_approval(state) = "end"
        /\ routed # "retry"
        /\ execCount = (IF pc = "execute_tests" THEN 0 ELSE 1)

\* a run under "none" that ended after one attempt with a failure labelled
\* transient, approval given and attempts left
C5_Witness ==
    /\ pc = "END" /\ state["policy"] = "none" /\ execCount = 1
    /\ state["summary"].failed > 0
    /\ state["approved"] = TRUE
    /\ state["attempt"] < state["max_attempts"]
    /\ \E i \in 1..Len(state["results"]) :
          Get(state["results"][i], "llm_label", Empty) = LabelTransient

\* whether some failed case of the current attempt satisfies P
SomeFailedNow(P(_)) == \E i \in 1..Len(FailedNow(state)) : P(FailedNow(state)[i])

LabelledTransient(c) == Get(c, "llm_label", Empty) = LabelTransient

\* C6, as the spec states it: under policy "always", with failures and attempts
\* left, the router answers "retry".
C6_AlwaysRetriesUnconditionally ==
    (Started /\ state["policy"] = "always" /\ state["summary"].failed > 0
             /\ state["attempt"] < state["max_attempts"]) =>
        decide_after_approval(state) = "retry"

\* C6, amended: under policy "always", with failures, attempts left and an
\* approval that is not false, the router answers "retry".
C6_AlwaysRetriesWhenApproved ==
    (Started /\ state["policy"] = "always" /\ state["summary"].failed > 0
             /\ state["attempt"] < state["max_attempts"]
             /\ ~ApprovedIsFalse(state)) =>
        decide_after_approval(state) = "retry"

\* the router answered "retry" under "always" for failures that neither a label
\* nor a rule would retry
C6_Witness ==
    /\ pc = "retry_once" /\ routed = "retry" /\ state["policy"] = "always"
    /\ state["approved"] = TRUE
    /\ state["summary"].failed > 0
    /\ decide_by_labels_or_rules(state) = "end"

\* the router on a false approval, and on the answer "deny" at the prompt
C7_ApprovedFalseEnds ==
    /\ (Started /\ ApprovedIsFalse(state)) => decide_after_approval(state) = "end"
    /\ (pc = "approval_checkpoint" /\ Prompts(state)) =>
          LET denied == approval_checkpoint(state, [kind |-> "line", text |-> LineDeny])
          IN  ApprovedIsFalse(denied) /\ decide_after_approval(denied) = "end"

\* the steps of a run whose approval is false, from the router on
C7_Step ==
    (ApprovedIsFalse(state) /\ pc \in {"decide_after_approval", "retry_once", "persist_to_memory"}) =>
        /\ pc' \in {"persist_to_memory", "END"}
        /\ ApprovedIsFalse(state')
        /\ execCount' = execCount

\* C7: whenever approved is false the router answers "end", under every policy
\* and whatever the labels; the answer "deny" at the prompt makes it so; and from
\* the router on, a run whose approval is false executes no test command again.
C7_DenyEnds == [](C7_ApprovedFalseEnds) /\ [][C7_Step]_vars

\* a run under "always" that was prompted, has approved false, a failure
\* labelled transient and an attempt left, and ended after its first attempt
C7_Witness ==
    /\ pc = "END" /\ state["policy"] = "always" /\ state["approved"] = FALSE
    /\ promptCount = 1 /\ execCount = 1
    /\ state["attempt"] < state["max_attempts"]
    /\ SomeFailedNow(LabelledTransient)

\* C8: under "flaky_only", approved and with attempts left, one failed case of
\* the current attempt labelled "transient" makes the router answer "retry".
C8_TransientLabelRetries ==
    (Started /\ state["policy"] = "flaky_only" /\ state["approved"] = TRUE
             /\ state["attempt"] < state["max_attempts"]
             /\ SomeFailedNow(LabelledTransient)) =>
        decide_after_approval(state) = "retry"

\* the router answered "retry" for two failed cases, one labelled transient,
\* the other unlabelled and matched by no rule
C8_Witness ==
    /\ pc = "retry_once" /\ routed = "retry" /\ state["policy"] = "flaky_only"
    /\ Len(FailedNow(state)) = 2
    /\ SomeFailedNow(LabelledTransient)
    /\ SomeFailedNow(LAMBDA c : ~Has(c, "llm_label") /\ ~_is_retry_eligible_ui(c))

\* C9, as the spec states it: under "flaky_only", approved and with attempts
\* left, if no failed case of the attempt is labelled transient and an unlabelled
\* one is rule-eligible, the router answers "retry".
C9_UnlabelledCaseFallsToRules ==
    (Started /\ state["policy"] = "flaky_only" /\ state["approved"] = TRUE
             /\ state["attempt"] < state["max_attempts"]
             /\ ~SomeFailedNow(LAMBDA c : Lower(Get(c, "llm_label", Empty)) = LabelTransient)
             /\ SomeFailedNow(LAMBDA c : ~Has(c, "llm_label") /\ _is_retry_eligible_ui(c))) =>
        decide_after_approval(state) = "retry"

\* C10, as the spec states it: a run prompts for approval at most once.
C10_PromptsAtMostOnce == promptCount <= 1

\* the last entry of the error list
LastError(s) == Get(s, "errors", <<>>)[Len(Get(s, "errors", <<>>))]

\* the step of a node that appended the error entry e and no other
Reported(e) ==
    /\ Len(state["errors"]') = Len(state["errors"]) + 1
    /\ LastError(state') = e

\* the failed cases the final attempt reported
FailedInFinalAttempt == Len(FailedNow(state))

\* C11, as the spec states it: the exit code of a run is 0 if and only if the
\* failed count of its final attempt is 0, and 1 otherwise; an attempt whose
\* report is missing or unparsable reported no failed case.
C11_ExitCodeOfFinalAttempt ==
    pc = "END" =>
        exit_code(state) = (IF FailedInFinalAttempt = 0 THEN 0 ELSE 1)

\* the step of parse_results on a missing report
C12_Step ==
    (pc = "parse_results" /\ Reported("[parse_results] JUnit not found")) =>
        /\ pc' = "llm_triage"
        /\ state["results"]' = state["results"]
        /\ state["summary"]' = EmptySummary

\* C12, as the spec states it: parse_results on a missing report, in any
\* attempt, appends one error entry and no result, and the run goes on with an
\* empty summary for that attempt.
C12_MissingReportGivesEmptySummary == [][C12_Step]_vars

\* the step of execute_tests: it returns and the graph goes on to parse_results;
\* when the directory is missing or the command could not be started it has
\* appended one error entry and set run_rc to 2, and has changed nothing else
\* but stdout and stderr
C13_Step ==
    pc = "execute_tests" =>
        /\ pc' = "parse_results"
        /\ execCount' = execCount + 1
        /\ (~cwd_exists' \/ state["stderr"]' = "[execute_tests] Exception") =>
              /\ state["run_rc"]' = 2
              /\ Len(state["errors"]') = Len(state["errors"]) + 1
              /\ \A k \in DOMAIN state : k \notin {"errors", "run_rc", "stdout", "stderr"}
                                           => state[k]' = state[k]
        /\ (cwd_exists' /\ state["stderr"]' # "[execute_tests] Exception") =>
              state["errors"]' = state["errors"]

\* C13: execute_tests never raises: in every state where the graph is at
\* execute_tests the step is possible, and when the working directory is
\* missing or the command cannot be started it appends an error entry, sets
\* run_rc to 2 and the run goes on to parse_results.
C13_ExecuteNeverRaises ==
    /\ [](pc = "execute_tests" => ENABLED ExecuteTests)
    /\ [][C13_Step]_vars

\* the second attempt found no working directory and the run went on to parse
C13_Witness ==
    /\ pc = "parse_results" /\ ~cwd_exists /\ execCount = 2
    /\ state["run_rc"] = 2 /\ Len(state["errors"]) = 1

\* every entry of the accumulated results carries the number of an attempt made
C14_Entries ==
    ~attempt_given =>
        \A i \in 1..Len(Get(state, "results", <<>>)) :
            /\ 1 <= state["results"][i].attempt
            /\ state["results"][i].attempt <= execCount

\* the results an attempt's parse adds are as many as the summary.total seen
\* after that parse
C14_Step ==
    (~attempt_given /\ pc = "parse_results") =>
        Len(state["results"]') = Len(state["results"]) + state["summary"]'.total

\* C14, as the spec states it: after K attempts the accumulated results are as
\* many as the sum of the summary.total seen after each attempt's parse (each
\* parse adds as many entries as the total it leaves), and every entry's attempt
\* number lies in 1..K.
C14_ResultsMatchTotals == [](C14_Entries) /\ [][C14_Step]_vars

\* the rows of the store a query for (name, message, days) is to count: status
\* 'failed', the same name, the same message, and a run of the last `days` days
CountedRows(d, name, message, days) ==
    { i \in 1..Len(d.results) :
        LET row == d.results[i]
            run == d.runs[CHOOSE j \in 1..Len(d.runs) : d.runs[j].id = row.run_id]
        IN  /\ row.status = "failed"
            /\ Len(row.name) = Len(name)
            /\ \A k \in 1..Len(name) : row.name[k] = name[k]
            /\ Len(row.message) = Len(message)
            /\ \A k \in 1..Len(message) : row.message[k] = message[k]
            /\ d.now - run.ts <= days }

\* the step of a call of find_recurrences
C15_Step ==
    (state'.op = "find_recurrences" /\ db' = db) =>
        /\ state'.count = Cardinality(CountedRows(db, state'.name, state'.message, state'.days))
        /\ db.results = <<>> => state'.count = 0

\* C15: find_recurrences(name, message, days) returns the number of stored rows
\* with status 'failed', exactly that name and exactly that message, whose run
\* lies within the last `days` days: 0 on an empty store, and no row of another
\* status, of another name or message (a prefix included) or of an older run is
\* counted.
C15_CountsExactRecentFailures == [][C15_Step]_vars

\* a query that counted a row while the store also held a row that is not
\* failed, a row whose name is a prefix of the name asked for or whose message
\* is one, and a matching row of a run older than the window
C15_Witness ==
    /\ pc = "store" /\ state.op = "find_recurrences" /\ state.count >= 1
    /\ state.name = NameCheckout /\ state.message = MsgAssert
    /\ \E i \in 1..Len(db.results) :
          /\ db.results[i].name = state.name /\ db.results[i].message = state.message
          /\ db.results[i].status = "failed"
          /\ db.runs[db.results[i].run_id].ts < db.now - state.days
    /\ \E i \in 1..Len(db.results) :
          \/ db.results[i].status # "failed"
          \/ db.results[i].name = NamePrefix
          \/ db.results[i].message = MsgPrefix

\* the step of a call of save_run
C16_Step ==
    (pc = "store" /\ saveCalls' = saveCalls + 1) =>
        LET results == state'.results
            nruns   == Len(db.runs)
            nrows   == Len(db.results)
        IN  /\ Len(db'.runs) = nruns + 1
            /\ SubSeq(db'.runs, 1, nruns) = db.runs
            /\ \A j \in 1..nruns : db.runs[j].id # db'.runs[nruns + 1].id
            /\ Len(db'.results) = nrows + Len(results)
            /\ SubSeq(db'.results, 1, nrows) = db.results
            /\ \A i \in 1..Len(results) :
                  /\ db'.results[nrows + i].run_id = db'.runs[nruns + 1].id
                  /\ db'.results[nrows + i].name = results[i].name
                  /\ db'.results[nrows + i].status = results[i].status
                  /\ db'.results[nrows + i].message = results[i].message

\* C16: a successful call of save_run adds one row to runs, with an id no
\* earlier run has, and one row to results per element of its results argument,
\* in order, each carrying that id; the rows of earlier runs stay as they are.
C16_SaveRunAddsOneRun == [][C16_Step]_vars

\* the second run saved, with two results, into a store that held a run with
\* results
C16_Witness ==
    /\ pc = "store" /\ state.op = "save_run" /\ saveCalls = 2
    /\ Len(state.results) = 2 /\ Len(db.results) >= 3 /\ Len(db.runs) = 2

\* the step of persist_to_memory when save_run failed
C17_Step ==
    (pc = "persist_to_memory" /\ Reported("[persist_to_memory] Save error")) =>
        /\ pc' = "END"
        /\ db' = db
        /\ ~Has(state', "memory_notes")
        /\ state["summary"]' = state["summary"]
        /\ state["results"]' = state["results"]
        /\ \A k \in DOMAIN state : k # "errors" => state[k]' = state[k]

\* C17: when save_run fails, persist_to_memory raises nothing (its step ends
\* the graph), appends one entry to errors, leaves the summary, the accumulated
\* results and every other field as they are, sets no memory_notes and writes
\* nothing to the store, and the run reaches the end of the graph.
C17_SaveFailureIsRecorded == [][C17_Step]_vars

\* a run of two attempts with a failed case ended without its history saved
C17_Witness ==
    /\ pc = "END" /\ Len(state["errors"]) = 1
    /\ LastError(state) = "[persist_to_memory] Save error"
    /\ db = EmptyStore /\ execCount = 2 /\ state["summary"].failed > 0
    /\ ~Has(state, "memory_notes")

\* the defaults of the fields the spec names
ClaimedDefaults ==
    [ project |-> "ui", cwd |-> ".", junit_path |-> "results/junit-ui.xml",
      max_attempts |-> 2, policy |-> "flaky_only", retry_scope |-> "full",
      approved |-> TRUE, attempt |-> 1 ]

\* the step of prepare_config
C19_Step ==
    pc = "prepare_config" =>
        /\ \A k \in DOMAIN state : Has(state', k) /\ state[k]' = state[k]
        /\ \A k \in DOMAIN ClaimedDefaults \ DOMAIN state :
              Has(state', k) /\ state[k]' = ClaimedDefaults[k]
        /\ prepare_config(state') = state'

\* C19: prepare_config leaves every field the caller set at the caller's value,
\* gives every field the caller left out its default, and applied to its own
\* result changes nothing.
C19_PrepareConfigMerges == [][C19_Step]_vars

\* prepare_config has filled a dict in which the caller had set the policy only
C19_Witness ==
    /\ pc = "execute_tests" /\ execCount = 0
    /\ state["policy"] = "always" /\ state["cwd"] = "." /\ state["project"] = "ui"
    /\ state["max_attempts"] = 2 /\ state["attempt"] = 1 /\ state["approved"] = TRUE
    /\ state["junit_path"] = "results/junit-ui.xml" /\ state["retry_scope"] = "full"

\* the step of approval_checkpoint
C20_Step ==
    pc = "approval_checkpoint" =>
        LET attempts_remain == state["attempt"] < state["max_attempts"]
            may_prompt == /\ state["summary"].failed > 0
                          /\ state["policy"] # "none"
                          /\ attempts_remain
        IN  /\ promptCount' # promptCount => may_prompt
            /\ ~may_prompt => (state' = state /\ promptCount' = promptCount)
            /\ \A k \in DOMAIN state : k # "approved" => state[k]' = state[k]

\* C20: approval_checkpoint prompts only where summary.failed > 0, the policy is
\* not "none" and attempt < max_attempts; in every other state it returns the
\* state as it is, approved included, and does not prompt.
C20_PromptsOnlyWhenRetryPossible == [][C20_Step]_vars

\* a run that was asked at its first attempt and, with failures again but no
\* attempt left, not at its second
C20_Witness ==
    /\ pc = "decide_after_approval" /\ execCount = 2 /\ promptCount = 1
    /\ state["summary"].failed > 0 /\ state["policy"] = "flaky_only"
    /\ state["attempt"] = state["max_attempts"]

\* the router's answer when the gate has left approved true
DecisionWhenApproved(s) == decide_after_approval(Put(s, "approved", TRUE))

\* the step of llm_triage when the classifier call raised or its output had the
\* wrong shape
C18_Step ==
    (pc = "llm_triage" /\ Reported("[llm_triage] Exception")) =>
        /\ pc' = "approval_checkpoint"
        /\ \A i \in 1..Len(state["results"]') :
              Has(state["results"][i]', "llm_label") => Has(state["results"][i], "llm_label")
        /\ (state["policy"] = "flaky_only" /\ state["attempt"] < state["max_attempts"]) =>
              (DecisionWhenApproved(state') = "retry"
                 <=> \E i \in 1..Len(FailedNow(state)) : _is_retry_eligible_ui(FailedNow(state)[i]))

\* C18, as the spec states it: when the classifier call raises or its output is
\* wrongly shaped, llm_triage raises nothing, attaches no label to any case,
\* and the router then decides as the rules do: under "flaky_only", approved
\* and with attempts left, "retry" if and only if some failed case of the
\* attempt is rule-eligible.
C18_ClassifierFailureFallsToRules == [][C18_Step]_vars

\* what approval_checkpoint returns for each answer, in a state where it prompts
C21_Answers ==
    (pc = "approval_checkpoint" /\ Prompts(state)) =>
        LET after(ans) == approval_checkpoint(state, ans)
            line(text) == [kind |-> "line", text |-> text]
        IN  /\ after(line(AnsApprove))["approved"] = TRUE
            /\ after(line(AnsDeny))["approved"] = FALSE
            /\ after([kind |-> "eof"]) = state
            /\ after(line(LineYes)) = state
            /\ after(line(Empty)) = state
            /\ \A ans \in Answers :
                  /\ DOMAIN after(ans) = DOMAIN state
                  /\ \A k \in DOMAIN state : k # "approved" => after(ans)[k] = state[k]

\* the step of approval_checkpoint writes no field but approved
C21_Step ==
    pc = "approval_checkpoint" =>
        /\ DOMAIN state' = DOMAIN state
        /\ \A k \in DOMAIN state : k # "approved" => state[k]' = state[k]

\* C21: where approval_checkpoint prompts, approved becomes true on the answer
\* "approve" and false on "deny", keeps its value on the end of input and on any
\* other answer (the empty line included), and no other field changes.
C21_AnswerSetsApproved == [](C21_Answers) /\ [][C21_Step]_vars

\* a run that asked once, holds an approval, and went on to a second attempt
C21_Witness ==
    /\ pc = "parse_results" /\ execCount = 2 /\ promptCount = 1
    /\ state["approved"] = TRUE /\ state["policy"] = "flaky_only"

\* the accumulated results of the state
ResultsOf(s) == Get(s, "results", <<>>)

\* C22, as the spec states it: across every step the accumulated results before
\* the step are a prefix of the accumulated results after it.
C22_ResultsArePrefix ==
    [][/\ Len(ResultsOf(state')) >= Len(ResultsOf(state))
       /\ SubSeq(ResultsOf(state'), 1, Len(ResultsOf(state))) = ResultsOf(state)]_vars

\* the fields parse_results gives an entry
ParsedFields == {"name", "suite", "status", "message", "details", "attempt", "project"}

\* the fields llm_triage may add to an entry
LabelFields == {"llm_label", "llm_reason"}

\* a step keeps every entry in its place with its parsed fields, adds to an
\* entry no field but the classifier's two, and appends entries only at
\* parse_results: the cases of one report, in its order, under the current
\* attempt number
C22_Step ==
    LET before == ResultsOf(state)
        after  == ResultsOf(state')
        added  == SubSeq(after, Len(before) + 1, Len(after))
    IN  /\ Len(after) >= Len(before)
        /\ \A i \in 1..Len(before) :
              /\ \A f \in ParsedFields : after[i][f] = before[i][f]
              /\ DOMAIN before[i] \subseteq DOMAIN after[i]
              /\ DOMAIN after[i] \subseteq DOMAIN before[i] \cup LabelFields
        /\ Len(after) > Len(before) =>
              /\ pc = "parse_results"
              /\ \E r \in Reports :
                    /\ Len(r) = Len(added)
                    /\ \A i \in 1..Len(r) :
                          /\ added[i].name = r[i].name
                          /\ added[i].attempt = state["attempt"]
                          /\ DOMAIN added[i] = ParsedFields

\* C22, amended: across every step the accumulated results keep their entries,
\* in place and with every parsed field unchanged (a step of llm_triage may add
\* the label and the rationale to an entry); entries are only appended, at
\* parse_results, in report order and under the current attempt number.
C22_ResultsOnlyGrow == [][C22_Step]_vars

\* the second attempt's cases were appended after a labelled case of the first
C22_Witness ==
    /\ pc = "llm_triage" /\ execCount = 2 /\ Len(state["results"]) = 3
    /\ state["results"][1].attempt = 1 /\ Has(state["results"][1], "llm_label")
    /\ state["results"][3].attempt = 2

\* the label and the rationale an entry carries
LabelFieldsOf(e) == [f \in LabelFields \cap DOMAIN e |-> e[f]]

\* a step changes the label or the rationale of an entry only at llm_triage and
\* only on a failed entry of the current attempt; an entry is appended without
\* either
C23_Step ==
    /\ \A i \in 1..Len(ResultsOf(state)) :
          (i <= Len(ResultsOf(state')) /\ LabelFieldsOf(ResultsOf(state')[i]) # LabelFieldsOf(ResultsOf(state)[i])) =>
              /\ pc = "llm_triage"
              /\ ResultsOf(state)[i].status = "failed"
              /\ ResultsOf(state)[i].attempt = state["attempt"]
    /\ \A i \in (Len(ResultsOf(state)) + 1)..Len(ResultsOf(state')) :
          DOMAIN LabelFieldsOf(ResultsOf(state')[i]) = {}

\* C23: llm_triage attaches a label and a rationale only to entries with status
\* "failed" and the current attempt number; no step gives a label to, or
\* changes the label of, an entry of an earlier attempt or a passed or skipped
\* entry.
C23_LabelsOnlyOnCurrentFailures == [][C23_Step]_vars

\* the case the classifier left unlabelled at the first attempt failed again at
\* the second and was labelled there, the first entry staying without a label
C23_Witness ==
    /\ pc = "approval_checkpoint" /\ execCount = 2 /\ Len(state["results"]) >= 2
    /\ state["results"][1].attempt = 1
    /\ state["results"][1].status = "failed"
    /\ ~Has(state["results"][1], "llm_label")
    /\ \E j \in 2..Len(state["results"]) :
          /\ state["results"][j].attempt = 2
          /\ state["results"][j].name = state["results"][1].name
          /\ Get(state["results"][j], "llm_label", Empty) = LabelReal

\* C24, as the spec states it: every classifier label stored on a result entry
\* is "transient" or "real", whatever text the classifier returned.
C24_StoredLabelsAreTransientOrReal ==
    \A i \in 1..Len(ResultsOf(state)) :
        Has(ResultsOf(state)[i], "llm_label") =>
            ResultsOf(state)[i]["llm_label"] \in {LabelTransient, LabelReal}

\* the entries of the accumulated results of s with attempt number k and status st
Tagged(s, k, st) ==
    { i \in 1..Len(ResultsOf(s)) :
        ResultsOf(s)[i].attempt = k /\ ResultsOf(s)[i].status = st }

\* the step of parse_results that found and read the report (it recorded no
\* error)
C25_Step ==
    (pc = "parse_results" /\ state["errors"]' = state["errors"]) =>
        LET k == state["attempt"]
        IN  /\ state["summary"]'.passed  = Cardinality(Tagged(state', k, "passed"))
            /\ state["summary"]'.failed  = Cardinality(Tagged(state', k, "failed"))
            /\ state["summary"]'.skipped = Cardinality(Tagged(state', k, "skipped"))

\* C25: after every parse of attempt k that found and read the report, the
\* passed, failed and skipped counts of the summary are the numbers of
\* accumulated entries tagged with attempt k of that status; the entries of
\* earlier attempts are not counted.
C25_SummaryCountsCurrentAttempt == [][C25_Step]_vars

\* the second attempt was parsed: one failed case in it, one more failed case
\* among the entries of the first
C25_Witness ==
    /\ pc = "llm_triage" /\ execCount = 2 /\ state["attempt"] = 2
    /\ state["summary"].failed = 1
    /\ Cardinality(Tagged(state, 2, "failed")) = 1
    /\ Cardinality(Tagged(state, 1, "failed")) >= 1

\* the status the spec gives a reported case
ClaimedStatus(tc) ==
    CASE tc.failure # NoFailure                  -> "failed"
      [] tc.failure = NoFailure /\ tc.skipped    -> "skipped"
      [] tc.failure = NoFailure /\ ~tc.skipped   -> "passed"

\* the summary adds up
C26_Total ==
    Started =>
        state["summary"].total =
            state["summary"].passed + state["summary"].failed + state["summary"].skipped

\* the entries a parse appends are the cases of a report, each with the status
\* the spec gives it
C26_Step ==
    (pc = "parse_results" /\ state["errors"]' = state["errors"]) =>
        LET added == SubSeq(ResultsOf(state'), Len(ResultsOf(state)) + 1, Len(ResultsOf(state')))
        IN  \E r \in Reports :
                /\ Len(r) = Len(added)
                /\ state["summary"]'.total = Len(r)
                /\ \A i \in 1..Len(r) :
                      /\ added[i].name = r[i].name
                      /\ added[i].status = ClaimedStatus(r[i])

\* C26: parse_results gives each reported case one status: "failed" if it has a
\* failure element (a skipped element or not), else "skipped" if it has a
\* skipped element, else "passed"; and after every parse summary.total is
\* passed + failed + skipped.
C26_OneStatusPerCase == [](C26_Total) /\ [][C26_Step]_vars

\* the report with one case that has a failure element and a skipped element
\* was parsed: the case counts as failed
C26_Witness ==
    /\ pc = "llm_triage" /\ execCount = 1
    /\ state["summary"] = [total |-> 1, passed |-> 0, failed |-> 1, skipped |-> 0]
    /\ state["results"][1].name = tcRealFail.name
    /\ state["results"][1].message = MsgAssert
    /\ state["results"][1].details = DetailsStep

\* text contains needle (given in lower case) when letter case is ignored
ContainsIgnoringCase(text, needle) ==
    \E k \in 0..(Len(text) - Len(needle)) :
        \A j \in 1..Len(needle) : LowerChar(text[k + j]) = needle[j]

\* the six substrings the spec names
ClaimedSignals ==
    { <<"n","o","t"," ","v","i","s","i","b","l","e">>,
      <<"t","i","m","e","o","u","t">>,
      <<"t","i","m","e","d"," ","o","u","t">>,
      <<"n","e","t","w","o","r","k">>,
      <<"n","a","v","i","g","a","t","i","o","n">>,
      <<"t","o"," ","b","e"," ","v","i","s","i","b","l","e">> }

\* C27: a failed case the router looks at is rule-eligible if and only if its
\* name contains
\* "@flaky", or its message or its detail text contains one of the six
\* substrings, letter case ignored; the tag alone suffices.
C27_RuleEligibility ==
    pc = "decide_after_approval" =>
        \A i \in 1..Len(FailedNow(state)) :
            LET c == FailedNow(state)[i]
            IN  /\ _is_retry_eligible_ui(c)
                      <=> \/ ContainsIgnoringCase(c.name, <<"@","f","l","a","k","y">>)
                          \/ \E sig \in ClaimedSignals : ContainsIgnoringCase(c.message, sig)
                          \/ \E sig \in ClaimedSignals : ContainsIgnoringCase(c.details, sig)
                /\ ContainsIgnoringCase(c.name, <<"@","f","l","a","k","y">>)
                      => _is_retry_eligible_ui(c)

\* the router answered "retry" by the rules for an attempt whose failed cases
\* carry no label: one with the tag in its name and no signal in its message,
\* one that no rule matches
C27_Witness ==
    /\ pc = "retry_once" /\ routed = "retry" /\ state["policy"] = "flaky_only"
    /\ Len(FailedNow(state)) = 2
    /\ \A i \in 1..2 : ~Has(FailedNow(state)[i], "llm_label")
    /\ FailedNow(state)[1].name = NameFlaky /\ FailedNow(state)[1].message = MsgAssert
    /\ ~_is_retry_eligible_ui(FailedNow(state)[2])

\* the first attempt of the run has been parsed and its report was missing
MissingAtFirst ==
    /\ execCount = 1 /\ pc # "parse_results"
    /\ \E i \in 1..Len(state["errors"]) : state["errors"][i] = "[parse_results] JUnit not found"

\* the run after a first attempt without a report
C28_State ==
    MissingAtFirst =>
        /\ state["summary"] = [total |-> 0, passed |-> 0, failed |-> 0, skipped |-> 0]
        /\ decide_after_approval(state) = "end"
        /\ routed # "retry"
        /\ pc \in {"llm_triage", "approval_checkpoint", "decide_after_approval",
                    "persist_to_memory", "END"}
        /\ exit_code(state) = 0

FailedOfRun(results) == SelectSeq(results, LAMBDA c : c.status = "failed")

\* C29, as the spec states it: persist_to_memory notes "NEW failure" for a
\* failed entry exactly when no run persisted before this one in the last 7
\* days holds a failed row with the same name and message, and "seen"
\* otherwise; the rows of the run itself make no recurrence.
C29_NewUnlessSeenInEarlierRun ==
    [][(state'.op = "persist_to_memory" /\ saveCalls' = saveCalls + 1) =>
          LET failed == FailedOfRun(state'.results)
          IN  /\ Len(state'.notes) = Len(failed)
              /\ \A i \in 1..Len(failed) :
                    state'.notes[i].note = "NEW failure"
                        <=> CountedRows(db, failed[i].name, failed[i].message, 7) = {}]_vars

\* the step of persist_to_memory on a store that takes the run
C29_Step ==
    (state'.op = "persist_to_memory" /\ saveCalls' = saveCalls + 1) =>
        LET failed == FailedOfRun(state'.results)
        IN  /\ Len(state'.notes) = Len(failed)
            /\ \A i \in 1..Len(failed) :
                  LET n == Cardinality(CountedRows(db', failed[i].name, failed[i].message, 7))
                  IN  /\ state'.notes[i].name = failed[i].name
                      /\ state'.notes[i].count = n
                      /\ state'.notes[i].note = (IF n <= 1 THEN "NEW failure" ELSE "seen")

\* C29, amended: persist_to_memory notes "NEW failure" for a failed entry
\* exactly when the store, this run's rows included, holds at most one failed
\* row with the same name and message in runs of the last 7 days, and "seen N
\* times" with N the number of those rows otherwise.
C29_NewUnlessCountedTwice == [][C29_Step]_vars

\* the first run ever persisted, in which one case failed in both attempts, is
\* noted as seen 2 times
C29_Witness ==
    /\ pc = "store" /\ state.op = "persist_to_memory" /\ Len(db.runs) = 1
    /\ Len(state.notes) = 2
    /\ state.notes[1].note = "seen" /\ state.notes[1].count = 2

\* no parse of the run has failed to find or to read its report
EveryReportRead ==
    \A i \in 1..Len(Get(state, "errors", <<>>)) :
        state["errors"][i] \notin {"[parse_results] JUnit not found", "[parse_results] Exception"}

\* the persisted run of a state at the end of the graph
C30_Persisted ==
    (pc = "END" /\ EveryReportRead /\ db.runs # <<>>) =>
        LET run  == db.runs[Len(db.runs)]
            rows == { i \in 1..Len(db.results) : db.results[i].run_id = run.id }
            last == { i \in rows : db.results[i].attempt = state["attempt"] }
        IN  /\ run.total = Cardinality(last)
            /\ run.total = state["summary"].total
            /\ run.failed = Cardinality({ i \in last : db.results[i].status = "failed" })
            /\ Cardinality(rows) = Len(state["results"])
            /\ \A i \in 1..Len(state["results"]) :
                  /\ db.results[i].name = state["results"][i].name
                  /\ db.results[i].attempt = state["results"][i].attempt
                  /\ db.results[i].status = state["results"][i].status

\* each parse that read its report added as many entries as its total
C30_Step ==
    (pc = "parse_results" /\ state["errors"]' = state["errors"]) =>
        Len(ResultsOf(state')) = Len(ResultsOf(state)) + state["summary"]'.total

\* C30: for a run whose every attempt produced a readable report, the persisted
\* runs row carries the counts of the final attempt (its total is the number of
\* persisted rows tagged with the final attempt number), and the persisted
\* results rows are the accumulated entries of all attempts (as many as the sum
\* of the per-attempt totals, each parse adding its total).
C30_RunRowIsFinalAttempt == [](C30_Persisted) /\ [][C30_Step]_vars

\* a run of two attempts, both read, was persisted: three rows, one of them of
\* the final attempt
C30_Witness ==
    /\ pc = "END" /\ EveryReportRead /\ Len(db.runs) = 1 /\ execCount = 2
    /\ Len(db.results) = 3 /\ db.runs[1].total = 1

====
